---- MODULE Spec2Model ----
(***************************************************************************)
(* Model of mru_page_replacement (src/main.py, lines 7-60): the MRU page   *)
(* replacement simulator.  One run of the function is a state machine over *)
(* its locals; each loop iteration of lines 19-54 is one action.           *)
(*                                                                         *)
(* Conventions.  Python positions are 0-based, TLA+ sequences 1-based:     *)
(* the page at Python position i is page_sequence[i + 1] and Python slot   *)
(* k of frames is frames[k + 1].  Python's None is the empty sequence and  *)
(* a page p held in mru_page is <<p>>.  The result tuple is held in a      *)
(* one-element sequence, <<>> while the function has not returned.  The    *)
(* "Frame State" string is the sequence of its " | "-separated tokens,     *)
(* each token being str(x) of the slot.  A float is the exact rational     *)
(* [num, den] of the arithmetic that produces it.  rendered is the list of *)
(* cases the file-input loop (lines 272-289) has passed to render_results. *)
(***************************************************************************)
EXTENDS Integers, Sequences, FiniteSets, TLC

VARIABLES page_sequence, frame_count, i, frames, last_used, faults,
          steps_data, mru_page, mru_index, pc, result, rendered

vars == <<page_sequence, frame_count, i, frames, last_used, faults,
          steps_data, mru_page, mru_index, pc, result, rendered>>

(* ---------------- bounds of the checked instance ---------------- *)

MaxLen == 6

MaxPage == 4

MaxFrames == 3

Pages == 1 .. MaxPage

FrameCounts == -1 .. MaxFrames

PageSequences == UNION {[1 .. n -> Pages] : n \in 0 .. MaxLen}

(* ---------------- helpers: the expressions of the loop body ---------------- *)

None == <<>>

Range(s) == {s[k] : k \in 1 .. Len(s)}

\* line 20 without the + 1
StepNoZeroBased(idx) == idx

\* line 20: step = i + 1
StepNo(idx) == idx + 1

\* line 21 testing the pages ever referenced instead of the resident ones
IsHitEverSeen(page, fs) == page \in DOMAIN last_used

\* line 21: hit = page in frames
IsHit(page, fs) == \E k \in 1 .. Len(fs) : fs[k] = page

\* line 26 keeping one frame back (off by one)
HasEmptyFrameOffByOne(fs, fc) == Len(fs) < fc - 1

\* line 26 with <= in place of <
HasEmptyFrameLeq(fs, fc) == Len(fs) <= fc

\* line 26: len(frames) < frame_count
HasEmptyFrame(fs, fc) == Len(fs) < fc

\* line 27 as frames.insert(0, page)
AppendPageFront(fs, page) == <<page>> \o fs

\* line 27 left out: the page is never placed
AppendPageDropped(fs, page) == fs

\* line 27: frames.append(page)
AppendPage(fs, page) == Append(fs, page)

\* line 33: last_used.get(p, -1)
LastUsedGet(lu, p) == IF p \in DOMAIN lu THEN lu[p] ELSE -1

\* lines 32-36: one pass over frames, keeping the strictly largest index
RECURSIVE MruLoop(_, _, _, _)
MruLoop(fs, lu, k, acc) ==
    IF k > Len(fs) THEN acc
    ELSE LET p == fs[k]
             idx == LastUsedGet(lu, p)
         IN MruLoop(fs, lu, k + 1,
                    IF idx > acc.mru_index
                    THEN [mru_page |-> <<p>>, mru_index |-> idx]
                    ELSE acc)

\* lines 30-36 choosing the smallest recorded index (the LRU page)
MruScanLeast(fs, lu) ==
    IF fs = <<>> THEN [mru_page |-> None, mru_index |-> -1]
    ELSE LET k == CHOOSE k \in 1 .. Len(fs) :
                      \A j \in 1 .. Len(fs) :
                          LastUsedGet(lu, fs[k]) <= LastUsedGet(lu, fs[j])
         IN [mru_page |-> <<fs[k]>>, mru_index |-> LastUsedGet(lu, fs[k])]

\* lines 30-36: mru_page = None, mru_index = -1, then the scan
MruScan(fs, lu) == MruLoop(fs, lu, 1, [mru_page |-> None, mru_index |-> -1])

\* line 38: frames.index(x) raises ValueError when x is not in frames
IndexRaises(fs, x) == \A k \in 1 .. Len(fs) : <<fs[k]>> # x

\* line 38: frames.index(x), the first position holding x (1-based here)
Index(fs, x) ==
    CHOOSE k \in 1 .. Len(fs) :
        /\ <<fs[k]>> = x
        /\ \A j \in 1 .. (k - 1) : <<fs[j]>> # x

\* line 39 as an append that leaves the victim in place
ReplaceByAppend(fs, k, page) == Append(fs, page)

\* line 39 as remove-then-append: the new page goes to the last slot
ReplaceRemoveAppend(fs, k, page) ==
    Append(SubSeq(fs, 1, k - 1) \o SubSeq(fs, k + 1, Len(fs)), page)

\* line 39: frames[replace_index] = page
Replace(fs, k, page) == [fs EXCEPT ![k] = page]

\* line 42 storing the fault counter instead of the position
UpdateLastUsedFaultCount(lu, page, idx) ==
    [p \in DOMAIN lu \cup {page} |-> IF p = page THEN faults ELSE lu[p]]

\* line 42 guarded by "if page in last_used": no entry is ever created
UpdateLastUsedExistingOnly(lu, page, idx) ==
    [p \in DOMAIN lu |-> IF p = page THEN idx ELSE lu[p]]

\* line 42 as last_used.setdefault(page, i): an existing entry is kept
UpdateLastUsedSetDefault(lu, page, idx) ==
    IF page \in DOMAIN lu THEN lu
    ELSE [p \in DOMAIN lu \cup {page} |-> IF p = page THEN idx ELSE lu[p]]

\* line 42: last_used[page] = i
UpdateLastUsed(lu, page, idx) ==
    [p \in DOMAIN lu \cup {page} |-> IF p = page THEN idx ELSE lu[p]]

\* lines 46-47: while len(frame_state) < frame_count: frame_state.append('-')
RECURSIVE Pad(_, _)
Pad(toks, fc) == IF Len(toks) < fc THEN Pad(Append(toks, "-"), fc) ELSE toks

\* lines 45-47, 52: copy of frames, padded, each slot through str()
FrameState(fs, fc) == Pad([k \in 1 .. Len(fs) |-> ToString(fs[k])], fc)

\* line 53 with the two labels exchanged
HitFaultSwapped(hit) == IF hit THEN "Fault" ELSE "Hit"

\* line 53: "Hit" if hit else "Fault"
HitFault(hit) == IF hit THEN "Hit" ELSE "Fault"

\* lines 49-54: the row appended to steps_data
StepRecord(idx, page, fs, fc, hit) ==
    [Step |-> StepNo(idx), Page |-> page,
     FrameState |-> FrameState(fs, fc), HitFault |-> HitFault(hit)]

\* line 57 without the factor 100
FaultRateFraction(f, total) ==
    IF total > 0 THEN [num |-> f, den |-> total]
                 ELSE [num |-> 0, den |-> 1]

\* line 57 without the guard on total
FaultRateUnguarded(f, total) == [num |-> f * 100, den |-> total]

\* line 57: (faults / total * 100) if total > 0 else 0.0
FaultRate(f, total) ==
    IF total > 0 THEN [num |-> f * 100, den |-> total]
                 ELSE [num |-> 0, den |-> 1]

(* ---------------- the state machine ---------------- *)

\* lines 14-17, on entry with arguments (page_sequence, frame_count)
Init ==
    /\ page_sequence \in PageSequences
    /\ frame_count \in FrameCounts
    /\ i = 0
    /\ frames = <<>>
    /\ last_used = <<>>
    /\ faults = 0
    /\ steps_data = <<>>
    /\ mru_page = None
    /\ mru_index = -1
    /\ pc = "loop"
    /\ result = <<>>
    /\ rendered = <<>>

\* lines 41-54: recency update, snapshot, trace row; then the next position
LoopTail(page, fs, hit) ==
    /\ last_used' = UpdateLastUsed(last_used, page, i)
    /\ steps_data' = Append(steps_data,
                            StepRecord(i, page, fs, frame_count, hit))
    /\ i' = i + 1
    /\ UNCHANGED <<page_sequence, frame_count, pc, result, rendered>>

\* lines 19-23, 41-54: the page is resident
StepHit ==
    /\ pc = "loop"
    /\ i < Len(page_sequence)
    /\ LET page == page_sequence[i + 1]
       IN /\ IsHit(page, frames)
          /\ UNCHANGED <<frames, faults, mru_page, mru_index>>
          /\ LoopTail(page, frames, TRUE)

\* lines 19-27, 41-54: a fault while a frame is free
StepFaultFill ==
    /\ pc = "loop"
    /\ i < Len(page_sequence)
    /\ LET page == page_sequence[i + 1]
       IN /\ ~IsHit(page, frames)
          /\ HasEmptyFrame(frames, frame_count)
          /\ faults' = faults + 1
          /\ frames' = AppendPage(frames, page)
          /\ UNCHANGED <<mru_page, mru_index>>
          /\ LoopTail(page, frames', FALSE)

\* lines 19-24, 28-39, 41-54: a fault with no free frame, victim replaced
StepFaultEvict ==
    /\ pc = "loop"
    /\ i < Len(page_sequence)
    /\ LET page == page_sequence[i + 1]
           scan == MruScan(frames, last_used)
       IN /\ ~IsHit(page, frames)
          /\ ~HasEmptyFrame(frames, frame_count)
          /\ ~IndexRaises(frames, scan.mru_page)
          /\ faults' = faults + 1
          /\ mru_page' = scan.mru_page
          /\ mru_index' = scan.mru_index
          /\ frames' = Replace(frames, Index(frames, scan.mru_page), page)
          /\ LoopTail(page, frames', FALSE)

\* lines 19-24, 28-38: frames.index(mru_page) raises ValueError
StepFaultRaise ==
    /\ pc = "loop"
    /\ i < Len(page_sequence)
    /\ LET page == page_sequence[i + 1]
           scan == MruScan(frames, last_used)
       IN /\ ~IsHit(page, frames)
          /\ ~HasEmptyFrame(frames, frame_count)
          /\ IndexRaises(frames, scan.mru_page)
          /\ faults' = faults + 1
          /\ mru_page' = scan.mru_page
          /\ mru_index' = scan.mru_index
          /\ pc' = "raised"
          /\ UNCHANGED <<page_sequence, frame_count, i, frames, last_used,
                         steps_data, result, rendered>>

\* lines 56-60: the loop is exhausted; totals and the returned tuple
Return ==
    /\ pc = "loop"
    /\ i = Len(page_sequence)
    /\ LET total == Len(page_sequence)
       IN result' = <<[faults |-> faults,
                       fault_rate |-> FaultRate(faults, total),
                       detail_df |-> steps_data]>>
    /\ pc' = "done"
    /\ UNCHANGED <<page_sequence, frame_count, i, frames, last_used, faults,
                   steps_data, mru_page, mru_index, rendered>>

Next ==
    \/ StepHit
    \/ StepFaultFill
    \/ StepFaultEvict
    \/ StepFaultRaise
    \/ Return

Spec == Init /\ [][Next]_vars

(* ---------------- the run on the default manual input ---------------- *)

\* line 202: example = "7 0 1 2 0 3 0 4 2 3 0 3 2", parsed by lines 214-215
Example2 == <<7, 0, 1, 2, 0, 3, 0, 4, 2, 3, 0, 3, 2>>

\* lines 14-17, on entry with the default text or a truncation of it
InitExample2 ==
    /\ page_sequence \in {SubSeq(Example2, 1, n) : n \in 0 .. Len(Example2)}
    /\ frame_count \in FrameCounts
    /\ i = 0
    /\ frames = <<>>
    /\ last_used = <<>>
    /\ faults = 0
    /\ steps_data = <<>>
    /\ mru_page = None
    /\ mru_index = -1
    /\ pc = "loop"
    /\ result = <<>>
    /\ rendered = <<>>

SpecExample2 == InitExample2 /\ [][Next]_vars

(* ---------------- the file-input case loop, lines 272-289 ---------------- *)

MaxCases == 3

MaxCaseLen == 3

MaxCasePage == 2

\* lines 273-283: a column that reaches the call is a non-empty list of ints
CaseSequences == UNION {[1 .. n -> 1 .. MaxCasePage] : n \in 1 .. MaxCaseLen}

\* lines 14-17 with frames and last_used outliving the call
StaleLocals ==
    [frames |-> frames, last_used |-> last_used, faults |-> 0,
     steps_data |-> <<>>]

\* lines 14-17: the locals every call starts from
FreshLocals ==
    [frames |-> <<>>, last_used |-> <<>>, faults |-> 0, steps_data |-> <<>>]

\* lines 272-287, first column: the first call of the loop
InitCases ==
    /\ page_sequence \in CaseSequences
    /\ frame_count \in FrameCounts
    /\ i = 0
    /\ frames = <<>>
    /\ last_used = <<>>
    /\ faults = 0
    /\ steps_data = <<>>
    /\ mru_page = None
    /\ mru_index = -1
    /\ pc = "loop"
    /\ result = <<>>
    /\ rendered = <<>>

\* lines 287-289: the returned tuple is unpacked and the case is rendered
RenderCase ==
    /\ pc = "done"
    /\ rendered' = Append(rendered,
                          [pages |-> page_sequence,
                           frame_count |-> frame_count,
                           faults |-> result[1].faults,
                           fault_rate |-> result[1].fault_rate,
                           detail_df |-> result[1].detail_df])
    /\ pc' = "rendered"
    /\ UNCHANGED <<page_sequence, frame_count, i, frames, last_used, faults,
                   steps_data, mru_page, mru_index, result>>

\* lines 272-287, 14-17: the next column is passed to a new call, with the
\* same frame_count
NextCase ==
    /\ pc = "rendered"
    /\ Len(rendered) < MaxCases
    /\ page_sequence' \in CaseSequences
    /\ i' = 0
    /\ frames' = FreshLocals.frames
    /\ last_used' = FreshLocals.last_used
    /\ faults' = FreshLocals.faults
    /\ steps_data' = FreshLocals.steps_data
    /\ mru_page' = None
    /\ mru_index' = -1
    /\ result' = <<>>
    /\ pc' = "loop"
    /\ UNCHANGED <<frame_count, rendered>>

NextCases ==
    \/ StepHit
    \/ StepFaultFill
    \/ StepFaultEvict
    \/ StepFaultRaise
    \/ Return
    \/ RenderCase
    \/ NextCase

SpecCases == InitCases /\ [][NextCases]_vars

(* ---------------- vocabulary of the properties ---------------- *)

Max(a, b) == IF a >= b THEN a ELSE b

\* the recorded recency index of a page, -1 when it has none
Recency(p) == IF p \in DOMAIN last_used THEN last_used[p] ELSE -1

\* the slots of a snapshot that hold a page
NonEmptySlots(toks) == {k \in 1 .. Len(toks) : toks[k] # "-"}

\* the function is about to process position i
AtStep == pc = "loop" /\ i < Len(page_sequence)

\* the last trace row
LastRecord == steps_data[Len(steps_data)]

(* ---------------- C1 ---------------- *)

\* C1: with frame_count >= 1, a fault taken while frames is full removes
\* the resident page whose last_used entry is the largest among the
\* resident pages, and the new reference takes its place.
C1_VictimIsMostRecentlyUsed ==
    [][(AtStep /\ frame_count >= 1 /\ Len(frames) = frame_count
        /\ page_sequence[i + 1] \notin Range(frames))
       => LET page == page_sequence[i + 1]
          IN /\ pc' = "loop" /\ i' = i + 1
             /\ \E k \in 1 .. Len(frames) :
                   /\ frames[k] \in DOMAIN last_used
                   /\ \A j \in 1 .. Len(frames) :
                          Recency(frames[j]) <= Recency(frames[k])
                   /\ frames' = [frames EXCEPT ![k] = page]
                   /\ frames[k] \notin Range(frames')
                   /\ page \in Range(frames')]_vars

\* an eviction has just happened among at least two resident pages
C1_Witness ==
    /\ frame_count >= 2
    /\ faults > frame_count
    /\ steps_data # <<>>
    /\ LastRecord.HitFault = "Fault"
    /\ mru_page # None
    /\ mru_page[1] \notin Range(frames)

(* ---------------- C2 ---------------- *)

\* C2: with frame_count >= 1, frames never holds more than frame_count
\* pages and every emitted snapshot has at most frame_count non-empty slots.
C2_AtMostFrameCountResident ==
    frame_count >= 1 =>
        /\ Len(frames) <= frame_count
        /\ Cardinality(Range(frames)) <= frame_count
        /\ \A k \in 1 .. Len(steps_data) :
               Cardinality(NonEmptySlots(steps_data[k].FrameState))
                   <= frame_count

\* frames is full, an eviction has happened, and snapshots were emitted
C2_Witness ==
    /\ frame_count >= 1
    /\ Len(frames) = frame_count
    /\ faults > frame_count
    /\ Len(steps_data) > frame_count
    /\ Cardinality(NonEmptySlots(LastRecord.FrameState)) = frame_count

(* ---------------- C3 ---------------- *)

\* C3: with frame_count < 1 the call fails before any step runs: no
\* reference is processed, no fault is counted, no trace row is produced
\* and the call never returns a result.
C3_ConfigErrorBeforeAnyStep ==
    frame_count < 1 =>
        /\ pc # "done"
        /\ result = <<>>
        /\ faults = 0
        /\ i = 0
        /\ steps_data = <<>>

(* ---------------- C4 ---------------- *)

\* C4 as stated: the returned fault rate is the fraction
\* faults / max(1, len(page_sequence)), 0.0 for the empty sequence.
C4_RateIsFraction ==
    pc = "done" =>
        LET r == result[1]
            total == Len(page_sequence)
        IN /\ r.fault_rate.den # 0
           /\ r.fault_rate.num * Max(1, total) = r.faults * r.fault_rate.den
           /\ (total = 0 => r.fault_rate.num = 0)

\* C4 amended: the returned fault rate is the percentage
\* 100 * faults / max(1, len(page_sequence)), 0.0 for the empty sequence,
\* and no division by zero takes place.
C4_RateIsPercentage ==
    pc = "done" =>
        LET r == result[1]
            total == Len(page_sequence)
        IN /\ r.fault_rate.den # 0
           /\ r.fault_rate.num * Max(1, total)
                  = 100 * r.faults * r.fault_rate.den
           /\ (total = 0 => r.fault_rate.num = 0)

\* a returned run in which some but not all references faulted
C4_Witness ==
    /\ pc = "done"
    /\ result[1].faults >= 1
    /\ result[1].faults < Len(page_sequence)

(* ---------------- C5 ---------------- *)

\* C5: a step is classified Hit exactly when its page is resident just
\* before the step; a Hit leaves frames (contents and slot order) and
\* faults unchanged and changes only the last_used entry of the page.
C5_HitIffResident ==
    [][AtStep
       => LET page == page_sequence[i + 1]
              resident == page \in Range(frames)
          IN /\ resident =>
                   /\ pc' = "loop" /\ i' = i + 1
                   /\ steps_data'[i'].HitFault = "Hit"
                   /\ frames' = frames
                   /\ faults' = faults
                   /\ mru_page' = mru_page /\ mru_index' = mru_index
                   /\ DOMAIN last_used' = DOMAIN last_used \cup {page}
                   /\ last_used'[page] = i
                   /\ \A p \in DOMAIN last_used \ {page} :
                          last_used'[p] = last_used[p]
             /\ (~resident /\ i' = i + 1) =>
                   /\ steps_data'[i'].HitFault = "Fault"
                   /\ faults' = faults + 1]_vars

\* the last step was a Hit, taken after an eviction
C5_Witness ==
    /\ steps_data # <<>>
    /\ LastRecord.HitFault = "Hit"
    /\ LastRecord.Page \in Range(frames)
    /\ mru_page # None

(* ---------------- C6 ---------------- *)

\* C6: with frame_count >= 1 the run does not raise, the trace grows by one
\* row per processed position, and the returned trace has exactly
\* len(page_sequence) rows, the k-th with step number k and page
\* page_sequence[k - 1] (k counted from 1).
C6_TraceFollowsSequence ==
    frame_count >= 1 =>
        /\ pc # "raised"
        /\ Len(steps_data) = i
        /\ \A k \in 1 .. Len(steps_data) :
               /\ steps_data[k].Step = k
               /\ steps_data[k].Page = page_sequence[k]
        /\ pc = "done" =>
               LET t == result[1].detail_df
               IN /\ Len(t) = Len(page_sequence)
                  /\ \A k \in 1 .. Len(t) :
                         /\ t[k].Step = k
                         /\ t[k].Page = page_sequence[k]

\* a returned run of at least three references that included an eviction
C6_Witness ==
    /\ pc = "done"
    /\ frame_count >= 1
    /\ Len(page_sequence) >= 3
    /\ Len(result[1].detail_df) = Len(page_sequence)
    /\ mru_page # None

(* ---------------- C7 ---------------- *)

\* the trace rows classified Fault
FaultRows(t) == {k \in 1 .. Len(t) : t[k].HitFault = "Fault"}

\* C7: after every processed prefix the fault counter equals the number of
\* trace rows classified Fault, and so does the returned fault count.
C7_FaultsCountFaultRows ==
    pc # "raised" =>
        /\ faults = Cardinality(FaultRows(steps_data))
        /\ pc = "done" =>
               result[1].faults = Cardinality(FaultRows(result[1].detail_df))

\* a prefix with both Hit rows and Fault rows, more of the run to come
C7_Witness ==
    /\ AtStep
    /\ Cardinality(FaultRows(steps_data)) >= 2
    /\ Len(steps_data) > Cardinality(FaultRows(steps_data))

(* ---------------- C8 ---------------- *)

\* the number of distinct pages among the first n references
DistinctSeen(n) == Cardinality({page_sequence[k] : k \in 1 .. n})

\* C8: with frame_count >= 1, frames is full exactly when frame_count
\* distinct pages have been seen; its size never decreases; once full it
\* stays full, and every later fault removes exactly one resident page and
\* adds exactly the new reference.
C8_FullStaysFull ==
    [][(pc = "loop" /\ frame_count >= 1)
       => /\ Len(frames') >= Len(frames)
          /\ (DistinctSeen(i) >= frame_count <=> Len(frames) = frame_count)
          /\ (DistinctSeen(i') >= frame_count <=> Len(frames') = frame_count)
          /\ Len(frames) = frame_count =>
                /\ Len(frames') = frame_count
                /\ (AtStep /\ page_sequence[i + 1] \notin Range(frames)) =>
                      /\ i' = i + 1
                      /\ Cardinality(Range(frames) \ Range(frames')) = 1
                      /\ Range(frames') \ Range(frames)
                             = {page_sequence[i + 1]}
                      /\ Cardinality(Range(frames')) = frame_count]_vars

\* frames is full and two evictions have already happened
C8_Witness ==
    /\ frame_count >= 2
    /\ Len(frames) = frame_count
    /\ faults >= frame_count + 2
    /\ Len(steps_data) = i

(* ---------------- C9 ---------------- *)

\* C9: the empty sequence with frame_count >= 1 is not an error: nothing
\* is raised, the function can return at once, and it returns fault count
\* 0, fault rate 0.0 and an empty trace.
C9_EmptySequenceReturnsZero ==
    (page_sequence = <<>> /\ frame_count >= 1) =>
        /\ pc \in {"loop", "done"}
        /\ pc = "loop" => ENABLED Return
        /\ pc = "done" =>
               /\ Len(result) = 1
               /\ result[1].faults = 0
               /\ result[1].fault_rate.num = 0
               /\ result[1].fault_rate.den # 0
               /\ result[1].detail_df = <<>>

\* the function has returned for an empty sequence
C9_Witness ==
    /\ page_sequence = <<>>
    /\ frame_count >= 1
    /\ pc = "done"
    /\ result # <<>>

(* ---------------- C10 ---------------- *)

\* position k is the first occurrence of its page
FirstOccurrence(k) == \A j \in 1 .. (k - 1) : page_sequence[j] # page_sequence[k]

\* the pages shown in a snapshot
ShownPages(toks) == {toks[k] : k \in NonEmptySlots(toks)}

\* C10: when the sequence has at most frame_count distinct pages, no
\* eviction ever happens, a row is a Fault exactly on the first occurrence
\* of its page, and the fault count is the number of distinct pages.
C10_NoEvictionWhenAllFit ==
    Cardinality(Range(page_sequence)) <= frame_count =>
        /\ pc # "raised"
        /\ mru_page = None
        /\ Range(frames) = {page_sequence[k] : k \in 1 .. i}
        /\ faults = DistinctSeen(i)
        /\ \A k \in 1 .. Len(steps_data) :
               /\ steps_data[k].HitFault = "Fault" <=> FirstOccurrence(k)
               /\ k >= 2 => ShownPages(steps_data[k - 1].FrameState)
                               \subseteq ShownPages(steps_data[k].FrameState)
        /\ pc = "done" =>
               result[1].faults = Cardinality(Range(page_sequence))

\* the run [1,2,3,1,2,3] with three frames has returned 3 faults, 3 hits
C10_Witness ==
    /\ page_sequence = <<1, 2, 3, 1, 2, 3>>
    /\ frame_count = 3
    /\ pc = "done"
    /\ result[1].faults = 3
    /\ Len(result[1].detail_df) - Cardinality(FaultRows(result[1].detail_df)) = 3

(* ---------------- C11 ---------------- *)

\* the last position among the first n references that holds page p
LastTouch(p, n) ==
    CHOOSE j \in 1 .. n :
        /\ page_sequence[j] = p
        /\ \A m \in (j + 1) .. n : page_sequence[m] # p

\* the pages referenced so far whose token is shown in trace row k
ResidentAtRow(k) ==
    {p \in {page_sequence[j] : j \in 1 .. k} :
        ToString(p) \in ShownPages(steps_data[k].FrameState)}

\* trace row k records an eviction: a Fault on a snapshot that was full
EvictionRow(k) ==
    /\ k >= 2
    /\ steps_data[k].HitFault = "Fault"
    /\ NonEmptySlots(steps_data[k - 1].FrameState)
           = 1 .. Len(steps_data[k - 1].FrameState)

\* C11: on [7,0,1,2,0,3,0,4,2,3,0,3,2] with 3 frames more than half of the
\* 13 steps are Faults, and at every eviction of that run the page that
\* leaves the snapshot is the resident page touched most recently.
C11_Example2FaultHeavy ==
    (page_sequence = Example2 /\ frame_count = 3) =>
        /\ pc # "raised"
        /\ \A k \in 1 .. Len(steps_data) :
               EvictionRow(k) =>
                   \E v \in ResidentAtRow(k - 1) :
                       /\ \A q \in ResidentAtRow(k - 1) :
                              LastTouch(q, k - 1) <= LastTouch(v, k - 1)
                       /\ ShownPages(steps_data[k - 1].FrameState)
                              \ ShownPages(steps_data[k].FrameState)
                            = {ToString(v)}
        /\ pc = "done" =>
               /\ Len(result[1].detail_df) = 13
               /\ 2 * result[1].faults > 13
               /\ 2 * Cardinality(FaultRows(result[1].detail_df)) > 13

\* the 13-step run has returned, after evictions
C11_Witness ==
    /\ page_sequence = Example2
    /\ frame_count = 3
    /\ pc = "done"
    /\ \E k \in 1 .. Len(steps_data) : EvictionRow(k)
    /\ 2 * result[1].faults > Len(page_sequence)

(* ---------------- C12 ---------------- *)

\* C12: with frame_count >= 1 the first reference is a Fault and goes into
\* the first slot of the empty frames; the first occurrence of any page is
\* a Fault, so the fault count is at least the number of distinct pages.
C12_FirstOccurrenceFaults ==
    frame_count >= 1 =>
        /\ pc # "raised"
        /\ \A k \in 1 .. Len(steps_data) :
               FirstOccurrence(k) => steps_data[k].HitFault = "Fault"
        /\ steps_data # <<>> =>
               /\ steps_data[1].HitFault = "Fault"
               /\ steps_data[1].FrameState[1] = ToString(page_sequence[1])
               /\ NonEmptySlots(steps_data[1].FrameState) = {1}
        /\ faults >= DistinctSeen(i)
        /\ pc = "done" =>
               /\ result[1].faults >= Cardinality(Range(page_sequence))
               /\ page_sequence # <<>> => result[1].faults >= 1

\* a one-reference run with one frame has returned: 1 fault, one Fault row
C12_Witness ==
    /\ Len(page_sequence) = 1
    /\ frame_count = 1
    /\ pc = "done"
    /\ result[1].faults = 1
    /\ Len(result[1].detail_df) = 1
    /\ result[1].detail_df[1].HitFault = "Fault"

(* ---------------- C13 ---------------- *)

\* the outcomes observed so far: the rendered cases and a returned call
Outcomes ==
    {[pages |-> rendered[k].pages, frame_count |-> rendered[k].frame_count,
      faults |-> rendered[k].faults, fault_rate |-> rendered[k].fault_rate,
      detail_df |-> rendered[k].detail_df] : k \in 1 .. Len(rendered)}
    \cup
    (IF pc = "done"
     THEN {[pages |-> page_sequence, frame_count |-> frame_count,
            faults |-> result[1].faults,
            fault_rate |-> result[1].fault_rate,
            detail_df |-> result[1].detail_df]}
     ELSE {})

\* two outcomes for the same inputs are the same outcome
SameInputsSameOutcome ==
    \A a, b \in Outcomes :
        (a.pages = b.pages /\ a.frame_count = b.frame_count) => a = b

\* C13: the result depends only on (page_sequence, frame_count): any two
\* calls with the same inputs give the same fault count, fault rate and
\* trace whatever calls ran before or between them, every call starts from
\* empty frames and last_used, and a call leaves its input unmodified.
C13_ResultDependsOnlyOnInputs ==
    [][/\ SameInputsSameOutcome'
       /\ (pc = "rendered" /\ pc' = "loop") =>
              /\ frames' = <<>> /\ last_used' = <<>>
              /\ faults' = 0 /\ steps_data' = <<>> /\ i' = 0
       /\ pc = "loop" =>
              /\ page_sequence' = page_sequence
              /\ frame_count' = frame_count]_vars

\* a call has returned for the inputs of the first case, after a
\* different case in between, and with an eviction in the run
C13_Witness ==
    /\ Len(rendered) = 2
    /\ pc = "done"
    /\ rendered[1].pages = page_sequence
    /\ rendered[2].pages # page_sequence
    /\ rendered[1].detail_df = result[1].detail_df
    /\ mru_page # None

(* ---------------- C14 ---------------- *)

\* a fault is about to be taken with frames full
AtEviction ==
    /\ AtStep
    /\ frame_count >= 1
    /\ Len(frames) = frame_count
    /\ page_sequence[i + 1] \notin Range(frames)

\* C14: on a fault with frames full the new reference is written into the
\* slot the victim occupied and every other slot keeps its page at its
\* position, in frames and in the emitted snapshot.
C14_ReplacementInPlace ==
    [][AtEviction
       => LET page == page_sequence[i + 1]
          IN /\ i' = i + 1
             /\ Len(frames') = Len(frames)
             /\ \E k \in 1 .. Len(frames) :
                   /\ mru_page' = <<frames[k]>>
                   /\ frames'[k] = page
                   /\ \A j \in (1 .. Len(frames)) \ {k} :
                          frames'[j] = frames[j]
                   /\ steps_data'[i'].FrameState[k] = ToString(page)
                   /\ \A j \in (1 .. Len(frames)) \ {k} :
                          steps_data'[i'].FrameState[j]
                              = steps_data[i].FrameState[j]]_vars

\* the last step replaced a victim that was not in the last slot
C14_Witness ==
    /\ Len(steps_data) >= 2
    /\ LastRecord.HitFault = "Fault"
    /\ mru_page # None
    /\ \E k \in 1 .. (Len(frames) - 1) :
           /\ frames[k] = LastRecord.Page
           /\ steps_data[Len(steps_data) - 1].FrameState[k]
                  = ToString(mru_page[1])

(* ---------------- C15 ---------------- *)

\* lu has exactly the pages of the first n references, each with the
\* 0-based position of its latest occurrence among them
RecencyExact(n, lu) ==
    /\ DOMAIN lu = {page_sequence[k] : k \in 1 .. n}
    /\ \A p \in DOMAIN lu : lu[p] = LastTouch(p, n) - 1

\* C15: after position i (0-based) is processed last_used has exactly one
\* entry per page of sequence[0..i], holding the largest j <= i with
\* sequence[j] equal to the page; the entry of the referenced page is set
\* on hits and faults alike, and no entry ever decreases.
C15_RecencyTableExact ==
    [][pc = "loop"
       => /\ RecencyExact(i, last_used)
          /\ RecencyExact(i', last_used')
          /\ \A p \in DOMAIN last_used :
                 p \in DOMAIN last_used' /\ last_used'[p] >= last_used[p]
          /\ i' = i + 1 =>
                 /\ page_sequence[i'] \in DOMAIN last_used'
                 /\ last_used'[page_sequence[i']] = i]_vars

\* the last step was a Hit that moved the entry of a page seen before,
\* with at least three pages in the table
C15_Witness ==
    /\ pc = "loop"
    /\ steps_data # <<>>
    /\ LastRecord.HitFault = "Hit"
    /\ last_used[LastRecord.Page] = i - 1
    /\ Cardinality(DOMAIN last_used) >= 3
    /\ \E k \in 1 .. (i - 2) : page_sequence[k] = LastRecord.Page

(* ---------------- C16 ---------------- *)

\* C16 as stated: at the first eviction after the initial fill some
\* resident page has no last_used entry and is scanned with the sentinel -1.
C16_SentinelUsedAtFirstEviction ==
    (AtEviction /\ mru_page = None) =>
        \E p \in Range(frames) :
            p \notin DOMAIN last_used /\ LastUsedGet(last_used, p) = -1

\* C16 amended: at the first eviction, and at every eviction, every
\* resident page has a last_used entry (written in the step that placed
\* it), so the sentinel -1 is never read for a resident page and the
\* index recorded for the victim is a visited position.
C16_SentinelNeverUsed ==
    /\ AtEviction =>
           \A p \in Range(frames) :
               /\ p \in DOMAIN last_used
               /\ LastUsedGet(last_used, p) >= 0
               /\ LastUsedGet(last_used, p) < i
    /\ (frame_count >= 1 /\ mru_page # None) =>
           /\ mru_index >= 0
           /\ mru_page[1] \in DOMAIN last_used
           /\ page_sequence[mru_index + 1] = mru_page[1]

\* exactly one eviction has happened, among at least two resident pages
C16_Witness ==
    /\ frame_count >= 2
    /\ faults = frame_count + 1
    /\ Len(frames) = frame_count
    /\ LastRecord.HitFault = "Fault"
    /\ mru_page # None
    /\ mru_index >= 0

(* ---------------- C17 ---------------- *)

\* the slots whose page has the largest recorded recency among frames
MaxRecencySlots ==
    {k \in 1 .. Len(frames) :
        \A j \in 1 .. Len(frames) : Recency(frames[j]) <= Recency(frames[k])}

\* C17: with frame_count >= 1 the resident pages are pairwise distinct,
\* and at every eviction they carry pairwise distinct recency indices, so
\* exactly one slot attains the maximum and the scan's keep-the-first rule
\* for equal indices never decides the victim.
C17_NoTiesAtEviction ==
    /\ frame_count >= 1 =>
           \A j, k \in 1 .. Len(frames) : j # k => frames[j] # frames[k]
    /\ AtEviction =>
           /\ \A j, k \in 1 .. Len(frames) :
                  j # k => Recency(frames[j]) # Recency(frames[k])
           /\ Cardinality(MaxRecencySlots) = 1
           /\ \A k \in MaxRecencySlots :
                  MruScan(frames, last_used).mru_page = <<frames[k]>>

\* a fault is about to evict among at least two resident pages, after an
\* earlier eviction and an earlier Hit
C17_Witness ==
    /\ AtEviction
    /\ frame_count >= 2
    /\ mru_page # None
    /\ \E k \in 1 .. Len(steps_data) : steps_data[k].HitFault = "Hit"

(* ---------------- C18 ---------------- *)

\* the pages of the first n references in first-seen order
RECURSIVE FirstSeen(_)
FirstSeen(n) ==
    IF n = 0 THEN <<>>
    ELSE IF FirstOccurrence(n) THEN Append(FirstSeen(n - 1), page_sequence[n])
         ELSE FirstSeen(n - 1)

\* a snapshot of tokens: frame_count slots, pages first, "-" only after them
WellFormedSnapshot(toks) ==
    /\ Len(toks) = frame_count
    /\ \E m \in 0 .. Len(toks) : NonEmptySlots(toks) = 1 .. m

\* C18: with frame_count >= 1 every snapshot has exactly frame_count slots
\* with the pages in a contiguous prefix; a fault with a free frame puts
\* the page into the leftmost empty slot, evicts nothing and leaves the
\* filled slots unchanged; until the first eviction the slots hold the
\* distinct pages in first-seen order.
C18_FillLeftToRight ==
    [][(pc = "loop" /\ frame_count >= 1)
       => /\ \A k \in 1 .. Len(steps_data') :
                 WellFormedSnapshot(steps_data'[k].FrameState)
          /\ (Len(frames') < frame_count \/ mru_page' = None) =>
                 frames' = FirstSeen(i')
          /\ (AtStep /\ Len(frames) < frame_count
                /\ page_sequence[i + 1] \notin Range(frames)) =>
                 LET page == page_sequence[i + 1]
                     slot == Len(frames) + 1
                     snap == steps_data'[i + 1].FrameState
                 IN /\ i' = i + 1
                    /\ Len(frames') = slot
                    /\ frames'[slot] = page
                    /\ \A j \in 1 .. Len(frames) : frames'[j] = frames[j]
                    /\ mru_page' = mru_page
                    /\ snap[slot] = ToString(page)
                    /\ \A j \in 1 .. Len(frames) :
                           snap[j] = ToString(frames[j])
                    /\ \A j \in (slot + 1) .. frame_count : snap[j] = "-"
                    /\ i >= 1 => \A j \in 1 .. Len(frames) :
                                     snap[j] = steps_data[i].FrameState[j]]_vars

\* the last step filled the second slot after a Hit, one slot still empty
C18_Witness ==
    /\ Len(frames) = 2
    /\ frame_count = 3
    /\ Len(steps_data) = 3
    /\ steps_data[2].HitFault = "Hit"
    /\ LastRecord.HitFault = "Fault"
    /\ LastRecord.FrameState[2] = ToString(LastRecord.Page)
    /\ LastRecord.FrameState[3] = "-"

(* ---------------- C19 ---------------- *)

\* C19: with frame_count >= 1, after every step the page just referenced
\* is resident, and the snapshot of the k-th trace row shows
\* page_sequence[k - 1] (k counted from 1), on a Hit and on a Fault.
C19_ReferencedPageResident ==
    frame_count >= 1 =>
        /\ i >= 1 => page_sequence[i] \in Range(frames)
        /\ \A k \in 1 .. Len(steps_data) :
               ToString(page_sequence[k])
                   \in ShownPages(steps_data[k].FrameState)
        /\ pc = "done" =>
               \A k \in 1 .. Len(result[1].detail_df) :
                   ToString(result[1].detail_df[k].Page)
                       \in ShownPages(result[1].detail_df[k].FrameState)

\* the last step brought back, by an eviction, a page evicted earlier
C19_Witness ==
    /\ frame_count >= 1
    /\ Len(steps_data) >= 3
    /\ LastRecord.HitFault = "Fault"
    /\ ~FirstOccurrence(Len(steps_data))
    /\ LastRecord.Page \in Range(frames)
    /\ ToString(LastRecord.Page) \in ShownPages(LastRecord.FrameState)

(* ---------------- C20 ---------------- *)

\* C20: with frame_count >= 1, an eviction at position i (0-based) has
\* i >= 1 and its victim is sequence[i - 1], the page referenced by the
\* step before; no step removes any other page from frames.
C20_VictimIsPreviousReference ==
    [][(pc = "loop" /\ frame_count >= 1)
       => /\ AtEviction =>
                 /\ i >= 1
                 /\ mru_page' = <<page_sequence[i]>>
                 /\ mru_index' = i - 1
                 /\ Range(frames) \ Range(frames') = {page_sequence[i]}
          /\ Range(frames) \ Range(frames')
                 \subseteq {page_sequence[k] : k \in {i} \ {0}}]_vars

\* the last step evicted the page that the step before had hit
C20_Witness ==
    /\ frame_count >= 2
    /\ Len(steps_data) >= 3
    /\ LastRecord.HitFault = "Fault"
    /\ steps_data[Len(steps_data) - 1].HitFault = "Hit"
    /\ mru_page = <<steps_data[Len(steps_data) - 1].Page>>
    /\ mru_page[1] \notin Range(frames)

====
